---------------------------- MODULE Spec2Model ----------------------------
(***************************************************************************)
(* Model of src/app.py (Lambertz kalkylator foer bevisvaerdering): the     *)
(* sequential Bayes engine (point and interval form), the counter-evidence *)
(* continuation, the Monte Carlo loop and the Dempster-Shafer combinator.  *)
(*                                                                         *)
(* Numbers.  The program computes with Python floats.  The model computes  *)
(* with exact rationals <<n, d>> (d > 0, lowest terms), so that equality   *)
(* of two values is equality of the numbers; rounding of the binary        *)
(* floating-point format is not modelled.  A division by zero, which       *)
(* raises ZeroDivisionError in Python, yields the value Fault, and Fault   *)
(* propagates through every later operation.                               *)
(***************************************************************************)
EXTENDS Integers, Sequences, FiniteSets, TLC

VARIABLES
    prior,                      \* prior = prior_percent / 100.0
    use_intervals,              \* sidebar checkbox "Intervall-Bayes (min-max)"
    bevis_data,                 \* list of (pba, pbna) or (mina, maxa, minna, maxna)
    enable_negative_evidence,   \* sidebar checkbox "Aktivera 'motbevis'-sektion"
    negative_bevis_data,        \* list of (nbga, nbgna)
    result,                     \* what the pressed button computed in this run
    final_in_pct,               \* st.session_state["final_in_pct"]
    steps,                      \* log of the Bayes update steps of this run
    bA_skuld, bA_oskuld,        \* sliders of "Bevis A" (Dempster-Shafer)
    bB_skuld, bB_oskuld,        \* sliders of "Bevis B" (Dempster-Shafer)
    ds,                         \* what "Kombinera med Dempster" wrote in this run
    p_s_true,                   \* p_s_true = prior_percent / 100.0 (Bayesian Network)
    bevis_bn,                   \* list of (pb_s, pb_ns) (Bayesian Network)
    bn,                         \* what "Beraekna BN-stjaerna" wrote in this run
    words_pct,                  \* the argument of a call of interpret_probability_in_words
    words_out,                  \* what the call returned
    fmt_x,                      \* the argument x of a call of format_auto_decimals
    fmt_max_decimals,           \* its argument max_decimals
    fmt_out                     \* what the call returned

bayes_inputs == <<prior, use_intervals, bevis_data, enable_negative_evidence,
                  negative_bevis_data>>
bayes_vars == <<bayes_inputs, result, final_in_pct, steps>>
ds_inputs == <<bA_skuld, bA_oskuld, bB_skuld, bB_oskuld>>
ds_vars == <<ds_inputs, ds>>
bn_inputs == <<p_s_true, bevis_bn>>
bn_vars == <<bn_inputs, bn>>
words_vars == <<words_pct, words_out>>
fmt_vars == <<fmt_x, fmt_max_decimals, fmt_out>>
vars == <<bayes_vars, ds_vars, bn_vars, words_vars, fmt_vars>>

-----------------------------------------------------------------------------
(* Bounds of the model *)

\* probabilities entered by the user are the multiples of 1/GridDen in [0,1]
GridDen == 2
\* largest number of evidence and counter-evidence items entered together
\* ("Antal bevis" + "Antal motbevis")
MaxItems == 2
\* largest number of evidence items when the Monte Carlo button is part of the run
MaxMcEvidence == 1
\* number of Monte Carlo samples drawn (n_samples, 1000 in the program)
NSamples == 2
\* the sliders of the Dempster-Shafer tab take the multiples of 1/SliderDen
\* (1/100 in the program)
SliderDen == 10
\* largest number of evidence nodes of the star network ("Antal bevis")
MaxBn == 3
\* largest number of evidence items in the sessions without counter-evidence
MaxOrderItems == 3
\* largest number of evidence items, and of counter-evidence items, in the
\* sessions in which the user edits the inputs between calculations
MaxSessionItems == 1

\* the largest number of interval items of a Monte Carlo session without
\* counter-evidence
MaxEnvelopeItems == 2
\* interpret_probability_in_words is called with the multiples of 1/PctDen
\* from -PctMargin to 100 + PctMargin
PctDen == 2
PctMargin == 5
\* format_auto_decimals is called with the fractions n/d, |n| <= FormatMaxNum
\* and d one of 1, 3, 8 and 1000, and with max_decimals in 0..MaxDecimals
FormatMaxNum == 110
MaxDecimals == 3

-----------------------------------------------------------------------------
(* Exact rational arithmetic standing for Python's float operators *)

RECURSIVE GCD(_, _)
GCD(a, b) == IF b = 0 THEN a ELSE GCD(b, a % b)

Abs(n) == IF n < 0 THEN -n ELSE n

\* the rational n/d (d # 0) in lowest terms with a positive denominator
Norm(n, d) ==
    LET g == GCD(Abs(n), Abs(d))
        s == IF d < 0 THEN -1 ELSE 1
    IN  <<(s * n) \div g, (s * d) \div g>>

\* the outcome of an operation that raised ZeroDivisionError
Fault == <<0, 0>>
IsFault(x) == x[2] = 0

Zero == <<0, 1>>
One == <<1, 1>>
Hundred == <<100, 1>>

\* the least common denominator of a and b
Lcd(a, b) == (a[2] \div GCD(a[2], b[2])) * b[2]

RAdd(a, b) ==
    IF IsFault(a) \/ IsFault(b) THEN Fault
    ELSE Norm(a[1] * (Lcd(a, b) \div a[2]) + b[1] * (Lcd(a, b) \div b[2]), Lcd(a, b))

RSub(a, b) ==
    IF IsFault(a) \/ IsFault(b) THEN Fault
    ELSE Norm(a[1] * (Lcd(a, b) \div a[2]) - b[1] * (Lcd(a, b) \div b[2]), Lcd(a, b))

\* the product n1/d1 * n2/d2, the common factors of n1, d2 and of n2, d1
\* cancelled before multiplying
Cancelled(n1, d1, n2, d2) ==
    LET g == IF n1 = 0 THEN d2 ELSE GCD(Abs(n1), d2)
        h == IF n2 = 0 THEN d1 ELSE GCD(Abs(n2), d1)
    IN  Norm((n1 \div g) * (n2 \div h), (d1 \div h) * (d2 \div g))

RMul(a, b) ==
    IF IsFault(a) \/ IsFault(b) THEN Fault
    ELSE Cancelled(a[1], a[2], b[1], b[2])

\* a / b: ZeroDivisionError when b is zero
RDiv(a, b) ==
    IF IsFault(a) \/ IsFault(b) \/ b[1] = 0 THEN Fault
    ELSE IF b[1] > 0 THEN Cancelled(a[1], a[2], b[2], b[1])
    ELSE Cancelled(-a[1], a[2], b[2], -b[1])

\* a <= b, a < b, a >= b (false on Fault: the comparison is never reached)
RLe(a, b) == ~IsFault(a) /\ ~IsFault(b) /\ a[1] * b[2] <= b[1] * a[2]
RLt(a, b) == ~IsFault(a) /\ ~IsFault(b) /\ a[1] * b[2] < b[1] * a[2]
RGe(a, b) == RLe(b, a)

\* the last element of a non-empty list: lst[-1]
Last(s) == s[Len(s)]

\* st.session_state["final_in_pct"] = None
None == <<>>

-----------------------------------------------------------------------------
(* format_auto_decimals.  A str is modelled as the sequence of its           *)
(* characters.                                                               *)

Digit == <<"0", "1", "2", "3", "4", "5", "6", "7", "8", "9">>

\* the decimal digits of the natural number n, most significant first
RECURSIVE NatDigits(_)
NatDigits(n) ==
    IF n < 10 THEN <<n>> ELSE Append(NatDigits(n \div 10), n % 10)

\* the first k digits after the decimal point of r/d (0 <= r < d), by long
\* division, and the remainder that is left
RECURSIVE FracDigits(_, _, _)
FracDigits(r, d, k) ==
    IF k = 0 THEN [digits |-> <<>>, rem |-> r]
    ELSE LET rest == FracDigits((r * 10) % d, d, k - 1)
         IN  [digits |-> <<(r * 10) \div d>> \o rest.digits, rem |-> rest.rem]

\* all but the last element of a non-empty list: lst[:-1]
Front(lst) == SubSeq(lst, 1, Len(lst) - 1)

\* the digits of the number one larger
RECURSIVE Increment(_)
Increment(digits) ==
    IF digits = <<>> THEN <<1>>
    ELSE IF Last(digits) < 9 THEN Append(Front(digits), Last(digits) + 1)
    ELSE Append(Increment(Front(digits)), 0)

\* f"{x:.{max_decimals}f}": the sign, the integer digits and exactly
\* max_decimals digits after the point, rounded to nearest with ties to the
\* even last digit; no point when max_decimals is 0.  (Not reached for a
\* Fault: the exception has ended the run.)
FixedPoint(x, max_decimals) ==
    IF IsFault(x) THEN <<>>
    ELSE
    LET n == Abs(x[1])
        d == x[2]
        fr == FracDigits(n % d, d, max_decimals)
        all == NatDigits(n \div d) \o fr.digits
        up == \/ 2 * fr.rem > d
              \/ 2 * fr.rem = d /\ Last(all) % 2 = 1
        rounded == IF up THEN Increment(all) ELSE all
        chars == [k \in 1..Len(rounded) |-> Digit[rounded[k] + 1]]
        ni == Len(rounded) - max_decimals
        body == IF max_decimals = 0 THEN chars
                ELSE SubSeq(chars, 1, ni) \o <<".">> \o SubSeq(chars, ni + 1, Len(chars))
    IN  IF x[1] < 0 THEN <<"-">> \o body ELSE body

\* str.rstrip(c) for a single character c
RECURSIVE RStrip(_, _)
RStrip(str, c) ==
    IF str # <<>> /\ Last(str) = c THEN RStrip(Front(str), c) ELSE str

\* variant of StripZeros: zeros are stripped only behind a decimal point
StripZeros_FractionOnly(str) ==
    IF \E k \in DOMAIN str : str[k] = "." THEN RStrip(str, "0") ELSE str

\* s.rstrip('0')
StripZeros(str) == RStrip(str, "0")

\* def format_auto_decimals(x, max_decimals=10)
format_auto_decimals(x, max_decimals) ==
    LET s1 == FixedPoint(x, max_decimals)
        s2 == RStrip(StripZeros(s1), ".")
    IN  IF s2 = <<>> \/ s2 = <<"-">> THEN <<"0">> ELSE s2

\* the default of the parameter max_decimals
DefaultDecimals == 10

-----------------------------------------------------------------------------
(* interpret_probability_in_words *)

\* variant of interpret_probability_in_words: the test for 80 comes first
interpret_probability_in_words_EightyFirst(pct) ==
    IF RGe(pct, <<80, 1>>) THEN "Klart oevervaegande skael"
    ELSE IF RGe(pct, <<95, 1>>) THEN "Staellt butom rimligt"
    ELSE IF RGe(pct, <<60, 1>>) THEN "I huvudsak styrkt"
    ELSE IF RGe(pct, <<50, 1>>) THEN "Cirka haelften / liten oevervikt"
    ELSE IF RGe(pct, <<40, 1>>) THEN "Tveksamt"
    ELSE IF RGe(pct, <<20, 1>>) THEN "Osannolikt"
    ELSE IF RGe(pct, <<1, 1>>) THEN "Praktiskt taget ingen chans"
    ELSE "Mycket naera omoejligt"

\* def interpret_probability_in_words(pct)
interpret_probability_in_words(pct) ==
    IF RGe(pct, <<95, 1>>) THEN "Staellt butom rimligt"
    ELSE IF RGe(pct, <<80, 1>>) THEN "Klart oevervaegande skael"
    ELSE IF RGe(pct, <<60, 1>>) THEN "I huvudsak styrkt"
    ELSE IF RGe(pct, <<50, 1>>) THEN "Cirka haelften / liten oevervikt"
    ELSE IF RGe(pct, <<40, 1>>) THEN "Tveksamt"
    ELSE IF RGe(pct, <<20, 1>>) THEN "Osannolikt"
    ELSE IF RGe(pct, <<1, 1>>) THEN "Praktiskt taget ingen chans"
    ELSE "Mycket naera omoejligt"

-----------------------------------------------------------------------------
(* do_exact_bayes_calculation, point mode (use_intervals = False) *)

\* variant of Kommentar: the top tier starts at 90
Kommentar_TopFromNinety(new_post_percent) ==
    IF RGe(new_post_percent, <<90, 1>>) THEN "Utom rimligt tvivel (>95%)"
    ELSE IF RGe(new_post_percent, <<80, 1>>) THEN "Talar starkt foer skuld (>80%)"
    ELSE IF RGe(new_post_percent, <<60, 1>>) THEN "Tillraeckliga skael foer aatal (>60%)"
    ELSE IF RGe(new_post_percent, <<50, 1>>) THEN "Bevisoevervikt(>50%)"
    ELSE IF RGe(new_post_percent, <<40, 1>>) THEN "Sannolika skael att misstaenka (>40%)"
    ELSE IF RGe(new_post_percent, <<30, 1>>) THEN "Tveksamt (>30%)"
    ELSE IF RGe(new_post_percent, <<20, 1>>) THEN "Osannolikt (>20%)"
    ELSE "Talar foer oskuld (<20%)"

\* the tier label of one row, chosen from new_post_percent
Kommentar(new_post_percent) ==
    IF RGe(new_post_percent, <<95, 1>>) THEN "Utom rimligt tvivel (>95%)"
    ELSE IF RGe(new_post_percent, <<80, 1>>) THEN "Talar starkt foer skuld (>80%)"
    ELSE IF RGe(new_post_percent, <<60, 1>>) THEN "Tillraeckliga skael foer aatal (>60%)"
    ELSE IF RGe(new_post_percent, <<50, 1>>) THEN "Bevisoevervikt(>50%)"
    ELSE IF RGe(new_post_percent, <<40, 1>>) THEN "Sannolika skael att misstaenka (>40%)"
    ELSE IF RGe(new_post_percent, <<30, 1>>) THEN "Tveksamt (>30%)"
    ELSE IF RGe(new_post_percent, <<20, 1>>) THEN "Osannolikt (>20%)"
    ELSE "Talar foer oskuld (<20%)"

\* one entry of the step log: the locals of one Bayes update
Step(site, old, pba, pbna, numerator, denominator, new) ==
    [site |-> site, old |-> old, pba |-> pba, pbna |-> pbna,
     numerator |-> numerator, denominator |-> denominator, new |-> new]

\* variant of PointNewPosterior: a zero denominator gives 1
PointNewPosterior_OneOnZero(numerator, denominator) ==
    IF denominator # Zero THEN RDiv(numerator, denominator) ELSE One

\* new_posterior = numerator/denominator if denominator != 0 else 0
PointNewPosterior(numerator, denominator) ==
    IF denominator # Zero THEN RDiv(numerator, denominator) ELSE Zero

\* variants of PointDenominator: the numerator left out of the sum, and the
\* complement 1 - old_posterior replaced by old_posterior
PointDenominator_NoNumerator(numerator, pbna, old_posterior) ==
    RMul(pbna, RSub(One, old_posterior))

PointDenominator_NoComplement(numerator, pbna, old_posterior) ==
    RAdd(numerator, RMul(pbna, old_posterior))

\* variant of PointDenominator: pbna is not weighted with 1 - old_posterior
PointDenominator_Unweighted(numerator, pbna, old_posterior) ==
    RAdd(numerator, pbna)

\* denominator = numerator + pbna*(1 - old_posterior)
PointDenominator(numerator, pbna, old_posterior) ==
    RAdd(numerator, RMul(pbna, RSub(One, old_posterior)))

\* variant of NextIndex: the row counter is not advanced
NextIndex_Stuck(i) == i

\* i += 1
NextIndex(i) == i + 1

\* the body of "for b in bevis_data", on the locals of the point branch
PointBody(st, b) ==
    LET pba == b[1]
        pbna == b[2]
        old_posterior == st.current_posterior
        numerator == RMul(pba, old_posterior)
        denominator == PointDenominator(numerator, pbna, old_posterior)
        new_posterior == PointNewPosterior(numerator, denominator)
        delta == RMul(RSub(new_posterior, old_posterior), Hundred)
        new_post_percent == RMul(new_posterior, Hundred)
        row == [nr |-> st.i,
                pba_pct |-> RMul(pba, Hundred),
                pbna_pct |-> RMul(pbna, Hundred),
                old_pct |-> RMul(old_posterior, Hundred),
                new_pct |-> new_post_percent,
                delta |-> delta,
                kommentar |-> Kommentar(new_post_percent)]
    IN  [row_list |-> Append(st.row_list, row),
         posterior_list |-> Append(st.posterior_list, new_posterior),
         current_posterior |-> new_posterior,
         i |-> NextIndex(st.i),
         steps |-> Append(st.steps,
                     Step("point", old_posterior, pba, pbna,
                          numerator, denominator, new_posterior))]

RECURSIVE PointLoop(_, _)
PointLoop(st, data) ==
    IF data = <<>> THEN st
    ELSE PointLoop(PointBody(st, Head(data)), Tail(data))

\* the else-branch of do_exact_bayes_calculation: (posterior_list, row_list)
ExactPoint(p, data) ==
    LET st == PointLoop([row_list |-> <<>>,
                         posterior_list |-> <<p>>,
                         current_posterior |-> p,
                         i |-> 1,
                         steps |-> <<>>], data)
    IN  [kind |-> "point",
         posterior_list |-> st.posterior_list,
         row_list |-> st.row_list,
         steps |-> st.steps]

-----------------------------------------------------------------------------
(* do_exact_bayes_calculation, interval mode (use_intervals = True) *)

\* new_min = numerator_min/denominator_min if denominator_min != 0 else 0
NewMin(numerator_min, denominator_min) ==
    IF denominator_min # Zero THEN RDiv(numerator_min, denominator_min) ELSE Zero

\* new_med = numerator_med/denominator_med if denominator_med != 0 else 0
NewMed(numerator_med, denominator_med) ==
    IF denominator_med # Zero THEN RDiv(numerator_med, denominator_med) ELSE Zero

\* new_max = numerator_max/denominator_max if denominator_max != 0 else 0
NewMax(numerator_max, denominator_max) ==
    IF denominator_max # Zero THEN RDiv(numerator_max, denominator_max) ELSE Zero

\* denominator_min = numerator_min + minna*(1 - current_min)
DenominatorMin(numerator_min, minna, current_min) ==
    RAdd(numerator_min, RMul(minna, RSub(One, current_min)))

\* denominator_med = numerator_med + pbna_med*(1 - current_median)
DenominatorMed(numerator_med, pbna_med, current_median) ==
    RAdd(numerator_med, RMul(pbna_med, RSub(One, current_median)))

\* variant of DenominatorMax: the complement 1 - current_max replaced by
\* current_max
DenominatorMax_NoComplement(numerator_max, maxna, current_max) ==
    RAdd(numerator_max, RMul(maxna, current_max))

\* denominator_max = numerator_max + maxna*(1 - current_max)
DenominatorMax(numerator_max, maxna, current_max) ==
    RAdd(numerator_max, RMul(maxna, RSub(One, current_max)))

\* pba_med = (mina + maxa)/2 and pbna_med = (minna + maxna)/2
Mean(lo, hi) == RDiv(RAdd(lo, hi), <<2, 1>>)

\* the body of "for (mina, maxa, minna, maxna) in bevis_data": the min and
\* median lists are appended to, the max list is not (only current_max moves)
IntervalBody(st, b) ==
    LET mina == b[1]
        maxa == b[2]
        minna == b[3]
        maxna == b[4]
        numerator_min == RMul(mina, st.current_min)
        denominator_min == DenominatorMin(numerator_min, minna, st.current_min)
        new_min == NewMin(numerator_min, denominator_min)
        pba_med == Mean(mina, maxa)
        pbna_med == Mean(minna, maxna)
        numerator_med == RMul(pba_med, st.current_median)
        denominator_med == DenominatorMed(numerator_med, pbna_med, st.current_median)
        new_med == NewMed(numerator_med, denominator_med)
        numerator_max == RMul(maxa, st.current_max)
        denominator_max == DenominatorMax(numerator_max, maxna, st.current_max)
        new_max == NewMax(numerator_max, denominator_max)
    IN  [min_post_list |-> Append(st.min_post_list, new_min),
         median_post_list |-> Append(st.median_post_list, new_med),
         max_post_list |-> st.max_post_list,
         current_min |-> new_min,
         current_median |-> new_med,
         current_max |-> new_max,
         steps |-> st.steps \o
             <<Step("min", st.current_min, mina, minna,
                    numerator_min, denominator_min, new_min),
               Step("med", st.current_median, pba_med, pbna_med,
                    numerator_med, denominator_med, new_med),
               Step("max", st.current_max, maxa, maxna,
                    numerator_max, denominator_max, new_max)>>]

RECURSIVE IntervalLoop(_, _)
IntervalLoop(st, data) ==
    IF data = <<>> THEN st
    ELSE IntervalLoop(IntervalBody(st, Head(data)), Tail(data))

\* the if-branch of do_exact_bayes_calculation:
\* (min_post_list, median_post_list, max_post_list)
ExactInterval(p, data) ==
    LET st == IntervalLoop([min_post_list |-> <<p>>,
                            median_post_list |-> <<p>>,
                            max_post_list |-> <<p>>,
                            current_min |-> p,
                            current_median |-> p,
                            current_max |-> p,
                            steps |-> <<>>], data)
    IN  [kind |-> "interval",
         min_post_list |-> st.min_post_list,
         median_post_list |-> st.median_post_list,
         max_post_list |-> st.max_post_list,
         steps |-> st.steps]

do_exact_bayes_calculation(p, data, intervals) ==
    IF intervals THEN ExactInterval(p, data) ELSE ExactPoint(p, data)

-----------------------------------------------------------------------------
(* enkel_bayes: the counter-evidence continuation of "Beraekna Bayes (Exakt)" *)

\* new_p = numerator/denominator if denominator!=0 else 0
NegNewP(numerator, denominator) ==
    IF denominator # Zero THEN RDiv(numerator, denominator) ELSE Zero

\* numerator = nbga * old
NegNumerator(nbga, nbgna, old) == RMul(nbga, old)

\* the four-tier label of a counter-evidence row
NegKomm(new_p_pct) ==
    IF RGe(new_p_pct, <<95, 1>>) THEN "Bortom rimligt tvivel (>95%)"
    ELSE IF RGe(new_p_pct, <<80, 1>>) THEN "Starkt foer skuld (>80%)"
    ELSE IF RGe(new_p_pct, <<50, 1>>) THEN "Delvis foer skuld (>50%)"
    ELSE "Under 50%"

\* variant of NegPair: the two probabilities of a counter-evidence item
\* change roles
NegPair_Swapped(nb) == <<nb[2], nb[1]>>

\* (nbga, nbgna): the item unpacked by the loop header
NegPair(nb) == <<nb[1], nb[2]>>

\* the body of "for (nbga, nbgna) in negative_bevis_data", point mode
NegPointBody(st, nb) ==
    LET nbga == NegPair(nb)[1]
        nbgna == NegPair(nb)[2]
        i_beviscount == st.i_beviscount + 1
        old == st.current_post
        numerator == NegNumerator(nbga, nbgna, old)
        denominator == RAdd(numerator, RMul(nbgna, RSub(One, old)))
        new_p == NegNewP(numerator, denominator)
        delta == RMul(RSub(new_p, old), Hundred)
        new_p_pct == RMul(new_p, Hundred)
        row == [nr |-> <<"Motbevis", i_beviscount>>,
                pba_pct |-> RMul(nbga, Hundred),
                pbna_pct |-> RMul(nbgna, Hundred),
                old_pct |-> RMul(old, Hundred),
                new_pct |-> new_p_pct,
                delta |-> delta,
                kommentar |-> NegKomm(new_p_pct)]
    IN  [row_list |-> Append(st.row_list, row),
         posterior_list |-> Append(st.posterior_list, new_p),
         current_post |-> new_p,
         i_beviscount |-> i_beviscount,
         steps |-> Append(st.steps,
                     Step("neg_point", old, nbga, nbgna, numerator, denominator, new_p))]

RECURSIVE NegPointLoop(_, _)
NegPointLoop(st, data) ==
    IF data = <<>> THEN st
    ELSE NegPointLoop(NegPointBody(st, Head(data)), Tail(data))

\* variant of NegStart: the continuation starts from the first entry
NegStart_First(posterior_list) == Head(posterior_list)

\* current_post = posterior_list[-1]
NegStart(posterior_list) == Last(posterior_list)

\* posterior_list, row_list = result, extended by the counter-evidence loop
NegPoint(res, neg) ==
    LET st == NegPointLoop([row_list |-> res.row_list,
                            posterior_list |-> res.posterior_list,
                            current_post |-> NegStart(res.posterior_list),
                            i_beviscount |-> Len(res.row_list),
                            steps |-> res.steps], neg)
    IN  [kind |-> "point",
         posterior_list |-> st.posterior_list,
         row_list |-> st.row_list,
         steps |-> st.steps]

\* new_x = num_x/den_x if den_x != 0 else 0, for x in min, med, max
NegNewMin(num_min, den_min) ==
    IF den_min # Zero THEN RDiv(num_min, den_min) ELSE Zero

NegNewMed(num_med, den_med) ==
    IF den_med # Zero THEN RDiv(num_med, den_med) ELSE Zero

NegNewMax(num_max, den_max) ==
    IF den_max # Zero THEN RDiv(num_max, den_max) ELSE Zero

\* the body of "for (nbga, nbgna) in negative_bevis_data", interval mode
NegIntervalBody(st, nb) ==
    LET nbga == nb[1]
        nbgna == nb[2]
        num_min == RMul(nbga, st.current_min)
        den_min == RAdd(num_min, RMul(nbgna, RSub(One, st.current_min)))
        new_min == NegNewMin(num_min, den_min)
        num_med == RMul(nbga, st.current_median)
        den_med == RAdd(num_med, RMul(nbgna, RSub(One, st.current_median)))
        new_med == NegNewMed(num_med, den_med)
        num_max == RMul(nbga, st.current_max)
        den_max == RAdd(num_max, RMul(nbgna, RSub(One, st.current_max)))
        new_max == NegNewMax(num_max, den_max)
    IN  [current_min |-> new_min,
         current_median |-> new_med,
         current_max |-> new_max,
         steps |-> st.steps \o
             <<Step("neg_min", st.current_min, nbga, nbgna, num_min, den_min, new_min),
               Step("neg_med", st.current_median, nbga, nbgna, num_med, den_med, new_med),
               Step("neg_max", st.current_max, nbga, nbgna, num_max, den_max, new_max)>>]

RECURSIVE NegIntervalLoop(_, _)
NegIntervalLoop(st, data) ==
    IF data = <<>> THEN st
    ELSE NegIntervalLoop(NegIntervalBody(st, Head(data)), Tail(data))

\* the patch for counter-evidence in interval mode: the three chains continue
\* from the last entry of their lists, and one entry is appended to each list
\* after the loop
NegInterval(res, neg) ==
    LET st == NegIntervalLoop([current_min |-> Last(res.min_post_list),
                               current_median |-> Last(res.median_post_list),
                               current_max |-> Last(res.max_post_list),
                               steps |-> res.steps], neg)
    IN  [kind |-> "interval",
         min_post_list |-> Append(res.min_post_list, st.current_min),
         median_post_list |-> Append(res.median_post_list, st.current_median),
         max_post_list |-> Append(res.max_post_list, st.current_max),
         steps |-> st.steps]

\* negative_count: the number input "Antal motbevis", 0 when the section is off
negative_count == IF enable_negative_evidence THEN Len(negative_bevis_data) ELSE 0

\* what the run shows when no button of the tab was pressed
NoResult == [kind |-> "none"]

\* the value the handler of "Beraekna Bayes (Exakt)" ends with: the result of
\* do_exact_bayes_calculation, extended by the counter-evidence when there is any
ExaktResult(p, data, intervals, with_neg, neg) ==
    LET res == do_exact_bayes_calculation(p, data, intervals)
    IN  IF with_neg
        THEN (IF intervals THEN NegInterval(res, neg) ELSE NegPoint(res, neg))
        ELSE res

\* the lists a result holds, without the step log
Shown(final) == [r \in DOMAIN final \ {"steps"} |-> final[r]]

\* if st.button("Beraekna Bayes (Exakt)"): the whole handler
BeraknaBayesExakt ==
    /\ result.kind # "mc_running"
    /\ \E final \in {ExaktResult(prior, bevis_data, use_intervals,
                                 enable_negative_evidence /\ negative_count > 0,
                                 negative_bevis_data)} :
          /\ result' = Shown(final)
          /\ steps' = final.steps
          /\ final_in_pct' =
                IF use_intervals
                THEN (IF enable_negative_evidence /\ negative_count > 0
                      THEN RMul(Last(final.median_post_list), Hundred)
                      ELSE final_in_pct)
                ELSE RMul(Last(final.posterior_list), Hundred)
    /\ UNCHANGED <<bayes_inputs, ds_vars, bn_vars, words_vars, fmt_vars>>

-----------------------------------------------------------------------------
(* enkel_bayes: the button "Monte Carlo simulering (demo)" *)

\* post = num/den if den != 0 else 0
McPost(num, den) == IF den # Zero THEN RDiv(num, den) ELSE Zero

\* variant of McNegPost: the division without its guard
McNegPost_Unguarded(num2, den2) == RDiv(num2, den2)

\* post = num2/den2 if den2!=0 else 0
McNegPost(num2, den2) == IF den2 # Zero THEN RDiv(num2, den2) ELSE Zero

\* a number input with min_value=0.0 and max_value=100.0, divided by 100
Prob == {Norm(k, GridDen) : k \in 0..GridDen}

\* variant of Uniform: the draw is not confined to the interval
Uniform_Unconfined(a, b) == Prob

\* the values random.uniform(a, b) can return, a + (b-a)*random(): the
\* probabilities of the grid between a and b, whichever of the two is larger
Uniform(a, b) == {x \in Prob : (RLe(a, x) /\ RLe(x, b)) \/ (RLe(b, x) /\ RLe(x, a))}

\* one pass of "for (mina, maxa, minna, maxna) in bevis_data" with the draws
\* pba and pbna, on the locals [post, steps] of one sample
McBody(st, pba, pbna) ==
    LET num == RMul(pba, st.post)
        den == RAdd(num, RMul(pbna, RSub(One, st.post)))
        post == McPost(num, den)
    IN  [post |-> post,
         steps |-> Append(st.steps, Step("mc", st.post, pba, pbna, num, den, post))]

\* the outcomes of the evidence loop of one sample, over all draws
RECURSIVE McLoop(_, _)
McLoop(S, data) ==
    IF data = <<>> THEN S
    ELSE LET b == Head(data)
         IN  McLoop({McBody(st, pba, pbna) :
                        st \in S, pba \in Uniform(b[1], b[2]),
                        pbna \in Uniform(b[3], b[4])},
                    Tail(data))

\* one pass of "for (nbga, nbgna) in negative_bevis_data" of one sample
McNegBody(st, nb) ==
    LET pba_neg == nb[1]
        pbna_neg == nb[2]
        num2 == RMul(pba_neg, st.post)
        den2 == RAdd(num2, RMul(pbna_neg, RSub(One, st.post)))
        post == McNegPost(num2, den2)
    IN  [post |-> post,
         steps |-> Append(st.steps,
                     Step("mc_neg", st.post, pba_neg, pbna_neg, num2, den2, post))]

RECURSIVE McNegLoop(_, _)
McNegLoop(st, data) ==
    IF data = <<>> THEN st
    ELSE McNegLoop(McNegBody(st, Head(data)), Tail(data))

\* the outcomes [post, steps] of one pass of "for _ in range(n_samples)"
McSample(p, data, with_neg, neg) ==
    {IF with_neg THEN McNegLoop(st, neg) ELSE st :
        st \in McLoop({[post |-> p, steps |-> <<>>]}, data)}

RECURSIVE SeqsOfLen(_, _)
SeqsOfLen(S, n) ==
    IF n = 0 THEN {<<>>}
    ELSE {Append(s, x) : s \in SeqsOfLen(S, n - 1), x \in S}

RECURSIVE Concat(_)
Concat(ss) == IF ss = <<>> THEN <<>> ELSE Head(ss) \o Concat(Tail(ss))

RECURSIVE Sum(_)
Sum(xs) == IF xs = <<>> THEN Zero ELSE RAdd(Head(xs), Sum(Tail(xs)))

\* arr.mean()
Mean_(arr) == RDiv(Sum(arr), <<Len(arr), 1>>)

\* arr.min() and arr.max()
MinOf(arr) == CHOOSE x \in {arr[k] : k \in DOMAIN arr} :
                  \A y \in {arr[k] : k \in DOMAIN arr} : RLe(x, y)
MaxOf(arr) == CHOOSE x \in {arr[k] : k \in DOMAIN arr} :
                  \A y \in {arr[k] : k \in DOMAIN arr} : RLe(y, x)

\* the number of entries of arr below x, and not above x
Below(arr, x) == Cardinality({k \in DOMAIN arr : RLt(arr[k], x)})
UpTo(arr, x) == Cardinality({k \in DOMAIN arr : RLe(arr[k], x)})

\* the k-th smallest entry of arr (k = 1 the smallest)
Ranked(arr, k) == CHOOSE x \in {arr[j] : j \in DOMAIN arr} :
                      Below(arr, x) < k /\ k <= UpTo(arr, x)

\* np.median(arr): the middle entry, or the mean of the two middle entries
Median(arr) ==
    LET n == Len(arr)
    IN  IF n % 2 = 1 THEN Ranked(arr, (n + 1) \div 2)
        ELSE Mean(Ranked(arr, n \div 2), Ranked(arr, n \div 2 + 1))

\* arr.std() squared: the mean of the squared deviations from the mean
Variance(arr) ==
    LET m == Mean_(arr)
    IN  Mean_([k \in DOMAIN arr |-> RMul(RSub(arr[k], m), RSub(arr[k], m))])

\* the statistics and the array the handler ends with
McResult(arr) ==
    [kind |-> "mc",
     results |-> arr,
     medel |-> Mean_(arr),
     minv |-> MinOf(arr),
     maxv |-> MaxOf(arr),
     stdv2 |-> Variance(arr),
     medianv |-> Median(arr)]

\* variant of IntervalModeOff: the precondition is never found violated
IntervalModeOff_Never(widget_use_intervals) == FALSE

\* if not st.session_state.get("widget_use_intervals", False)
IntervalModeOff(widget_use_intervals) == ~widget_use_intervals

\* if st.button("Monte Carlo simulering (demo)"): the precondition, then
\* n_samples = 1000 and results = []
MonteCarloSimulering ==
    /\ result.kind # "mc_running"
    /\ result' = IF IntervalModeOff(use_intervals)
                 THEN [kind |-> "mc_error",
                       error |-> "Intervall-laege maaste vara aktiverat foer Monte Carlo."]
                 ELSE [kind |-> "mc_running", results |-> <<>>]
    /\ steps' = <<>>
    /\ UNCHANGED <<bayes_inputs, final_in_pct, ds_vars, bn_vars, words_vars, fmt_vars>>

\* variant of SampleStart: a sample goes on from where the last one ended
SampleStart_CarryOver(p, results) ==
    IF results = <<>> THEN p ELSE RDiv(Last(results), Hundred)

\* post = prior, at the top of each pass of "for _ in range(n_samples)"
SampleStart(p, results) == p

\* one pass of "for _ in range(n_samples)": results.append(post*100); the
\* last pass goes on to the statistics
McIteration ==
    /\ result.kind = "mc_running"
    /\ \E st \in McSample(SampleStart(prior, result.results), bevis_data,
                          enable_negative_evidence /\ Len(negative_bevis_data) > 0,
                          negative_bevis_data) :
          \E arr \in {Append(result.results, RMul(st.post, Hundred))} :
             /\ result' = IF Len(arr) = NSamples
                          THEN McResult(arr)
                          ELSE [kind |-> "mc_running", results |-> arr]
             /\ steps' = steps \o st.steps
    /\ UNCHANGED <<bayes_inputs, final_in_pct, ds_vars, bn_vars, words_vars, fmt_vars>>

-----------------------------------------------------------------------------
(* dempster_shafer_demo *)

\* a slider from 0.0 to 1.0
Mass == {Norm(k, SliderDen) : k \in 0..SliderDen}

\* variant of Combine: the numerator is not divided by K
Combine_Unnormalised(num, K) == num

\* m_skyldig = m_skyldig_num / K and m_oskuld = m_oskuld_num / K
Combine(num, K) == RDiv(num, K)

\* variant of TotalConflict: the test is K < 0
TotalConflict_Negative(K) == RLt(K, Zero)

\* if K == 0
TotalConflict(K) == K = Zero

\* variant of SumExceedsOne: only the mass on 'skyldig' is compared with 1
SumExceedsOne_GuiltOnly(skuld, oskuld) == RLt(One, skuld)

\* if bA_skuld + bA_oskuld > 1.0 (and the same test for B)
SumExceedsOne(skuld, oskuld) == RLt(One, RAdd(skuld, oskuld))

\* variant of MSkyldigNum: the last product taken from A's side again
MSkyldigNum_OneSided(a_skuld, a_okand, b_skuld, b_okand) ==
    RAdd(RAdd(RMul(a_skuld, b_skuld), RMul(a_skuld, b_okand)),
         RMul(a_skuld, b_okand))

\* m_skyldig_num = (bA_skuld*bB_skuld) + (bA_skuld*bB_okand) + (bA_okand*bB_skuld)
MSkyldigNum(a_skuld, a_okand, b_skuld, b_okand) ==
    RAdd(RAdd(RMul(a_skuld, b_skuld), RMul(a_skuld, b_okand)),
         RMul(a_okand, b_skuld))

\* variant of MOskuldNum: the first product is counted twice
MOskuldNum_DoubleCount(a_oskuld, a_okand, b_oskuld, b_okand) ==
    RAdd(RAdd(RMul(a_oskuld, b_oskuld), RMul(a_oskuld, b_okand)),
         RAdd(RMul(a_okand, b_oskuld), RMul(a_oskuld, b_oskuld)))

\* m_oskuld_num = (bA_oskuld*bB_oskuld) + (bA_oskuld*bB_okand) + (bA_okand*bB_oskuld)
MOskuldNum(a_oskuld, a_okand, b_oskuld, b_okand) ==
    RAdd(RAdd(RMul(a_oskuld, b_oskuld), RMul(a_oskuld, b_okand)),
         RMul(a_okand, b_oskuld))

\* variant of MOkand: the product of the two unknown masses, not divided by K
MOkand_Product(m_skyldig, m_oskuld, a_okand, b_okand) == RMul(a_okand, b_okand)

\* m_okand = 1.0 - (m_skyldig + m_oskuld)
MOkand(m_skyldig, m_oskuld, a_okand, b_okand) ==
    RSub(One, RAdd(m_skyldig, m_oskuld))

\* variant of ConflictOf: only A's guilt against B's innocence is counted
ConflictOf_OneSided(a_skuld, a_oskuld, b_skuld, b_oskuld) ==
    RMul(a_skuld, b_oskuld)

\* conflict = (bA_skuld*bB_oskuld) + (bA_oskuld*bB_skuld)
ConflictOf(a_skuld, a_oskuld, b_skuld, b_oskuld) ==
    RAdd(RMul(a_skuld, b_oskuld), RMul(a_oskuld, b_skuld))

SumError == [kind |-> "error",
             error |-> "Summan kan ej oeverstiga 1. Justera vaerdena."]

ConflictError == [kind |-> "error",
                  error |-> "Total konflikt => K=0, kan ej kombineras."]

\* what one run of dempster_shafer_demo with the button pressed writes for the
\* slider values (a_skuld, a_oskuld) of "Bevis A" and (b_skuld, b_oskuld) of
\* "Bevis B"
Dempster(a_skuld, a_oskuld, b_skuld, b_oskuld) ==
    IF SumExceedsOne(a_skuld, a_oskuld) THEN SumError
    ELSE IF SumExceedsOne(b_skuld, b_oskuld) THEN SumError
    ELSE LET a_okand == RSub(One, RAdd(a_skuld, a_oskuld))
             b_okand == RSub(One, RAdd(b_skuld, b_oskuld))
             conflict == ConflictOf(a_skuld, a_oskuld, b_skuld, b_oskuld)
             K == RSub(One, conflict)
             m_skyldig == Combine(MSkyldigNum(a_skuld, a_okand, b_skuld, b_okand), K)
             m_oskuld == Combine(MOskuldNum(a_oskuld, a_okand, b_oskuld, b_okand), K)
             m_okand == MOkand(m_skyldig, m_oskuld, a_okand, b_okand)
         IN  IF TotalConflict(K) THEN ConflictError
             ELSE [kind |-> "combined",
                   m_skyldig |-> m_skyldig,
                   m_oskuld |-> m_oskuld,
                   m_okand |-> m_okand,
                   conflict |-> conflict,
                   K |-> K]

\* the run of dempster_shafer_demo in which "Kombinera med Dempster" is pressed
KombineraMedDempster ==
    /\ ds' = Dempster(bA_skuld, bA_oskuld, bB_skuld, bB_oskuld)
    /\ UNCHANGED <<ds_inputs, bayes_vars, bn_vars, words_vars, fmt_vars>>

-----------------------------------------------------------------------------
(* bayesian_network_demo *)

\* product_if_s = 1.0; for (pb_s, pb_ns) in bevis_bn: product_if_s *= pb_s
RECURSIVE ProductIfS(_, _)
ProductIfS(product_if_s, data) ==
    IF data = <<>> THEN product_if_s
    ELSE ProductIfS(RMul(product_if_s, Head(data)[1]), Tail(data))

\* variant of ProductIfNs: the loop multiplies pb_s again
RECURSIVE ProductIfNs_UsesGuilt(_, _)
ProductIfNs_UsesGuilt(product_if_ns, data) ==
    IF data = <<>> THEN product_if_ns
    ELSE ProductIfNs_UsesGuilt(RMul(product_if_ns, Head(data)[1]), Tail(data))

\* product_if_ns = 1.0; for (pb_s, pb_ns) in bevis_bn: product_if_ns *= pb_ns
RECURSIVE ProductIfNs(_, _)
ProductIfNs(product_if_ns, data) ==
    IF data = <<>> THEN product_if_ns
    ELSE ProductIfNs(RMul(product_if_ns, Head(data)[2]), Tail(data))

\* variant of PosteriorBn: the division without its guard
PosteriorBn_Unguarded(top, bottom) == RDiv(top, bottom)

\* if bottom == 0: posterior_bn = 0.0 else: posterior_bn = top / bottom
PosteriorBn(top, bottom) == IF bottom = Zero THEN Zero ELSE RDiv(top, bottom)

\* what the block of the button computes and writes for prior p and the
\* evidence nodes data
BnStar(p, data) ==
    LET p_s_false == RSub(One, p)
        top == RMul(p, ProductIfS(One, data))
        bottom == RAdd(top, RMul(p_s_false, ProductIfNs(One, data)))
        posterior_bn == PosteriorBn(top, bottom)
        post_pct == RMul(posterior_bn, Hundred)
    IN  [kind |-> "bn",
         top |-> top,
         bottom |-> bottom,
         posterior_bn |-> posterior_bn,
         post_pct |-> post_pct,
         shown |-> format_auto_decimals(post_pct, DefaultDecimals),
         fromtext |-> interpret_probability_in_words(post_pct)]

\* if st.button("Beraekna BN-stjaerna")
BeraknaBNStjarna ==
    /\ bn' = BnStar(p_s_true, bevis_bn)
    /\ UNCHANGED <<bn_inputs, bayes_vars, ds_vars, words_vars, fmt_vars>>

-----------------------------------------------------------------------------
(* Calls of the two helper functions on their own *)

\* a call interpret_probability_in_words(words_pct)
InterpretProbabilityInWords ==
    /\ words_out' = [kind |-> "label",
                     label |-> interpret_probability_in_words(words_pct)]
    /\ UNCHANGED <<words_pct, fmt_vars, bayes_vars, ds_vars, bn_vars>>

\* a call format_auto_decimals(fmt_x, fmt_max_decimals)
FormatAutoDecimals ==
    /\ fmt_out' = [kind |-> "str",
                   s |-> format_auto_decimals(fmt_x, fmt_max_decimals)]
    /\ UNCHANGED <<fmt_x, fmt_max_decimals, words_vars, bayes_vars, ds_vars, bn_vars>>

-----------------------------------------------------------------------------
(* The sessions checked *)

\* the lists of lo..hi elements of S
Lists(S, lo, hi) == UNION {SeqsOfLen(S, n) : n \in lo..hi}

\* (p_b_given_a_val/100.0, p_b_given_not_a_val/100.0)
PointItem == Prob \X Prob

\* (val_min_a/100.0, val_max_a/100.0, val_min_na/100.0, val_max_na/100.0)
IntervalItem == Prob \X Prob \X Prob \X Prob

\* bevis_data in point mode: antal >= 1 items, at most n
PointEvidence(n) == Lists(PointItem, 1, n)

\* bevis_data in interval mode: antal >= 1 items, at most n
IntervalEvidence(n) == Lists(IntervalItem, 1, n)

\* bevis_data in interval mode in the sessions with the Monte Carlo button
McEvidence(n) == Lists(IntervalItem, 1, n)

\* negative_bevis_data when the section is on: negative_count >= 1 items, at most n
NegEvidence(n) == Lists(PointItem, 1, n)

\* the tab "Enkel Bayes" before a button is pressed
BayesIdle ==
    /\ result = NoResult
    /\ final_in_pct = None
    /\ steps = <<>>

\* the counter-evidence section: off with no items, or on with at least one
NegInputs(n) ==
    /\ enable_negative_evidence \in BOOLEAN
    /\ negative_bevis_data \in
          IF enable_negative_evidence
          THEN {nb \in NegEvidence(MaxItems - 1) : n + Len(nb) <= MaxItems}
          ELSE {<<>>}

\* the Dempster-Shafer tab as it opens: the sliders at their default values
DsDefault ==
    /\ bA_skuld = <<1, 2>>
    /\ bA_oskuld = <<1, 5>>
    /\ bB_skuld = <<2, 5>>
    /\ bB_oskuld = <<3, 10>>
    /\ ds = NoResult

\* the tab "Enkel Bayes" as it opens: prior 0.01 %, three items of 50 % and 10 %
BayesDefault ==
    /\ prior = <<1, 10000>>
    /\ use_intervals = FALSE
    /\ bevis_data = <<<<<<1, 2>>, <<1, 10>>>>, <<<<1, 2>>, <<1, 10>>>>,
                      <<<<1, 2>>, <<1, 10>>>>>>
    /\ enable_negative_evidence = FALSE
    /\ negative_bevis_data = <<>>
    /\ BayesIdle

\* the tab "Bayesian Network" as it opens: prior 0.01 %, three nodes of 50 %
\* and 10 %
BnDefault ==
    /\ p_s_true = <<1, 10000>>
    /\ bevis_bn = <<<<<<1, 2>>, <<1, 10>>>>, <<<<1, 2>>, <<1, 10>>>>,
                    <<<<1, 2>>, <<1, 10>>>>>>
    /\ bn = NoResult

\* no call of a helper function on its own
HelpersIdle ==
    /\ words_pct = Zero
    /\ words_out = NoResult
    /\ fmt_x = Zero
    /\ fmt_max_decimals = DefaultDecimals
    /\ fmt_out = NoResult

\* point mode: the user's inputs, then "Beraekna Bayes (Exakt)"
InitPoint ==
    /\ prior \in Prob
    /\ use_intervals = FALSE
    /\ bevis_data \in PointEvidence(MaxItems)
    /\ NegInputs(Len(bevis_data))
    /\ BayesIdle
    /\ DsDefault
    /\ BnDefault
    /\ HelpersIdle

NextPoint == BeraknaBayesExakt

SpecPoint == InitPoint /\ [][NextPoint]_vars

\* interval mode: the user's inputs, then "Beraekna Bayes (Exakt)"
InitInterval ==
    /\ prior \in Prob
    /\ use_intervals = TRUE
    /\ bevis_data \in IntervalEvidence(MaxItems)
    /\ NegInputs(Len(bevis_data))
    /\ BayesIdle
    /\ DsDefault
    /\ BnDefault
    /\ HelpersIdle

NextInterval == BeraknaBayesExakt

SpecInterval == InitInterval /\ [][NextInterval]_vars

\* either mode, with both buttons of the tab
Init ==
    /\ prior \in Prob
    /\ use_intervals \in BOOLEAN
    /\ bevis_data \in IF use_intervals THEN McEvidence(MaxMcEvidence)
                                      ELSE PointEvidence(MaxItems)
    /\ NegInputs(Len(bevis_data))
    /\ BayesIdle
    /\ DsDefault
    /\ BnDefault
    /\ HelpersIdle

Next ==
    \/ BeraknaBayesExakt
    \/ MonteCarloSimulering
    \/ McIteration

Spec == Init /\ [][Next]_vars

\* the Dempster-Shafer tab: the user's slider values, then the button
InitDS ==
    /\ bA_skuld \in Mass
    /\ bA_oskuld \in Mass
    /\ bB_skuld \in Mass
    /\ bB_oskuld \in Mass
    /\ ds = NoResult
    /\ BayesDefault
    /\ BnDefault
    /\ HelpersIdle

NextDS == KombineraMedDempster

SpecDS == InitDS /\ [][NextDS]_vars

\* bevis_data in point mode in the sessions without counter-evidence
OrderEvidence(n) == Lists(PointItem, 1, n)

\* point mode without counter-evidence: the user's inputs, then
\* "Beraekna Bayes (Exakt)"
InitOrder ==
    /\ prior \in Prob
    /\ use_intervals = FALSE
    /\ bevis_data \in OrderEvidence(MaxOrderItems)
    /\ enable_negative_evidence = FALSE
    /\ negative_bevis_data = <<>>
    /\ BayesIdle
    /\ DsDefault
    /\ BnDefault
    /\ HelpersIdle

NextOrder == BeraknaBayesExakt

SpecOrder == InitOrder /\ [][NextOrder]_vars

\* the inputs of the sessions with edits: interval items are entered with
\* min <= max
SessionPointEvidence(n) == Lists(PointItem, 1, n)
SessionIntervalItem == {b \in IntervalItem : RLe(b[1], b[2]) /\ RLe(b[3], b[4])}
SessionIntervalEvidence(n) == Lists(SessionIntervalItem, 1, n)
SessionNegEvidence(n) == Lists(PointItem, 1, n)
SessionEvidence(intervals) ==
    IF intervals THEN SessionIntervalEvidence(MaxSessionItems)
    ELSE SessionPointEvidence(MaxSessionItems)

\* a rerun of the script in which no button is pressed: nothing is computed or
\* shown, and st.session_state["final_in_pct"] is kept
RerunWithoutButton ==
    /\ result' = NoResult
    /\ steps' = <<>>
    /\ UNCHANGED <<final_in_pct, ds_vars, bn_vars, words_vars, fmt_vars>>

\* the user changes "Ursprunglig sannolikhet (%)"
EditPrior ==
    /\ prior' \in Prob
    /\ prior' # prior
    /\ UNCHANGED <<use_intervals, bevis_data, enable_negative_evidence,
                   negative_bevis_data>>
    /\ RerunWithoutButton

\* the user ticks or unticks "Intervall-Bayes (min-max)": the evidence tabs
\* show the number inputs of the other mode
ToggleIntervals ==
    /\ use_intervals' = ~use_intervals
    /\ bevis_data' \in SessionEvidence(use_intervals')
    /\ UNCHANGED <<prior, enable_negative_evidence, negative_bevis_data>>
    /\ RerunWithoutButton

\* the user changes "Antal bevis" or a number input of an evidence tab
EditEvidence ==
    /\ bevis_data' \in SessionEvidence(use_intervals)
    /\ bevis_data' # bevis_data
    /\ UNCHANGED <<prior, use_intervals, enable_negative_evidence,
                   negative_bevis_data>>
    /\ RerunWithoutButton

\* the user ticks or unticks "Aktivera 'motbevis'-sektion", or changes
\* "Antal motbevis" or a number input of a counter-evidence tab
EditNegativeEvidence ==
    /\ enable_negative_evidence' \in BOOLEAN
    /\ negative_bevis_data' \in
          IF enable_negative_evidence' THEN SessionNegEvidence(MaxSessionItems) ELSE {<<>>}
    /\ <<enable_negative_evidence', negative_bevis_data'>> #
          <<enable_negative_evidence, negative_bevis_data>>
    /\ UNCHANGED <<prior, use_intervals, bevis_data>>
    /\ RerunWithoutButton

\* a session of the tab "Enkel Bayes": inputs, calculations and edits in any
\* order
InitSession ==
    /\ prior \in Prob
    /\ use_intervals \in BOOLEAN
    /\ bevis_data \in SessionEvidence(use_intervals)
    /\ enable_negative_evidence \in BOOLEAN
    /\ negative_bevis_data \in
          IF enable_negative_evidence THEN SessionNegEvidence(MaxSessionItems) ELSE {<<>>}
    /\ BayesIdle
    /\ DsDefault
    /\ BnDefault
    /\ HelpersIdle

NextSession ==
    \/ BeraknaBayesExakt
    \/ EditPrior
    \/ ToggleIntervals
    \/ EditEvidence
    \/ EditNegativeEvidence

SpecSession == InitSession /\ [][NextSession]_vars

\* bevis_data in interval mode in the Monte Carlo sessions without
\* counter-evidence: every interval is entered with min <= max
EnvelopeEvidence(n) == Lists(SessionIntervalItem, 1, n)

\* interval mode without counter-evidence: the user's inputs, then
\* "Monte Carlo simulering (demo)"
InitEnvelope ==
    /\ prior \in Prob
    /\ use_intervals = TRUE
    /\ bevis_data \in EnvelopeEvidence(MaxEnvelopeItems)
    /\ enable_negative_evidence = FALSE
    /\ negative_bevis_data = <<>>
    /\ BayesIdle
    /\ DsDefault
    /\ BnDefault
    /\ HelpersIdle

NextEnvelope ==
    \/ MonteCarloSimulering
    \/ McIteration

SpecEnvelope == InitEnvelope /\ [][NextEnvelope]_vars

\* bevis_bn: antal_bn >= 1 nodes, at most n
BnEvidence(n) == Lists(PointItem, 1, n)

\* the tab "Bayesian Network": the user's inputs, then the button
InitBN ==
    /\ p_s_true \in Prob
    /\ bevis_bn \in BnEvidence(MaxBn)
    /\ bn = NoResult
    /\ BayesDefault
    /\ DsDefault
    /\ HelpersIdle

NextBN == BeraknaBNStjarna

SpecBN == InitBN /\ [][NextBN]_vars

\* percentages entered with more digits than the grid has: the number inputs
\* take any value from 0 to 100 in steps of 1e-7
ScenarioPrior == {<<1, 100>>, <<1, 10>>, <<1, 2>>}
ScenarioProb == {<<1, 1000>>, <<1, 100>>, <<1, 10>>, <<1, 2>>, <<19, 20>>, One}
ScenarioEvidence == Lists(ScenarioProb \X ScenarioProb, 1, 1)

\* point mode with one evidence item and no counter-evidence
InitScenario ==
    /\ prior \in ScenarioPrior
    /\ use_intervals = FALSE
    /\ bevis_data \in ScenarioEvidence
    /\ enable_negative_evidence = FALSE
    /\ negative_bevis_data = <<>>
    /\ BayesIdle
    /\ DsDefault
    /\ BnDefault
    /\ HelpersIdle

NextScenario == BeraknaBayesExakt

SpecScenario == InitScenario /\ [][NextScenario]_vars

\* the arguments of the calls of interpret_probability_in_words
PctInputs == {Norm(k, PctDen) : k \in (-PctMargin * PctDen)..((100 + PctMargin) * PctDen)}

InitWords ==
    /\ words_pct \in PctInputs
    /\ words_out = NoResult
    /\ fmt_x = Zero
    /\ fmt_max_decimals = DefaultDecimals
    /\ fmt_out = NoResult
    /\ BayesDefault
    /\ DsDefault
    /\ BnDefault

NextWords == InterpretProbabilityInWords

SpecWords == InitWords /\ [][NextWords]_vars

\* the arguments of the calls of format_auto_decimals
FormatDens == {1, 3, 8, 1000}
FormatInputs == {Norm(n, d) : n \in (-FormatMaxNum)..FormatMaxNum, d \in FormatDens}

InitFormat ==
    /\ fmt_x \in FormatInputs
    /\ fmt_max_decimals \in 0..MaxDecimals
    /\ fmt_out = NoResult
    /\ words_pct = Zero
    /\ words_out = NoResult
    /\ BayesDefault
    /\ DsDefault
    /\ BnDefault

NextFormat == FormatAutoDecimals

SpecFormat == InitFormat /\ [][NextFormat]_vars

-----------------------------------------------------------------------------
(* The properties checked *)

InUnit(x) == RLe(Zero, x) /\ RLe(x, One)

\* pg*old + pi*(1-old), written out from the update formula
BayesDen(old, pg, pi) == RAdd(RMul(pg, old), RMul(pi, RSub(One, old)))

\* new is the Bayes update of old with the pair (pg, pi): new * den = pg * old,
\* and 0 when the denominator is zero
IsBayesUpdate(old, pg, pi, new) ==
    IF BayesDen(old, pg, pi) = Zero THEN new = Zero
    ELSE RMul(new, BayesDen(old, pg, pi)) = RMul(pg, old)

\* the logged steps of the sites in S
StepsAt(S) == {k \in DOMAIN steps : steps[k].site \in S}

\* the number of evidence items, n
NEvidence == Len(bevis_data)

\* C1: in point mode every entry of the posterior trace that
\* do_exact_bayes_calculation returns (entries 0..n) lies in [0,1], and so
\* does the result of every single update step with a nonzero denominator.
C1_PointTraceInUnitInterval ==
    result.kind = "point" =>
        /\ \A k \in 1..(NEvidence + 1) : InUnit(result.posterior_list[k])
        /\ \A k \in StepsAt({"point"}) :
              steps[k].denominator # Zero => InUnit(steps[k].new)

\* a two-item point calculation whose second update has a nonzero denominator
\* and moves the posterior to a value strictly inside (0,1)
C1_Witness ==
    /\ result.kind = "point"
    /\ NEvidence = 2
    /\ steps[2].denominator # Zero
    /\ RLt(Zero, result.posterior_list[3])
    /\ RLt(result.posterior_list[3], One)
    /\ result.posterior_list[3] # result.posterior_list[2]

C3_ZeroDenominatorGivesZero ==
    \A k \in DOMAIN steps :
        /\ ~IsFault(steps[k].new)
        /\ BayesDen(steps[k].old, steps[k].pba, steps[k].pbna) = Zero
              => steps[k].new = Zero

\* a finished Monte Carlo run in which a sample met a zero denominator on a
\* drawn pair and again on the counter-evidence pair that followed
C3_Witness ==
    /\ result.kind = "mc"
    /\ \E k \in StepsAt({"mc"}) :
          /\ steps[k].denominator = Zero
          /\ RLt(Zero, steps[k].old)
          /\ k + 1 \in DOMAIN steps
          /\ steps[k + 1].site = "mc_neg"
          /\ steps[k + 1].denominator = Zero

\* C4: the point trace of n evidence items has entry 0 equal to the prior and
\* entry k the update of entry k-1 with the k-th item, in input order, with
\* rows numbered 1..n; it has n+1 entries and n rows, one more of each per
\* counter-evidence pair that the handler appends.
C4_PointTraceShape ==
    result.kind = "point" =>
        /\ Len(result.posterior_list) = NEvidence + 1 + negative_count
        /\ Len(result.row_list) = NEvidence + negative_count
        /\ result.posterior_list[1] = prior
        /\ \A k \in 1..NEvidence :
              /\ IsBayesUpdate(result.posterior_list[k], bevis_data[k][1],
                               bevis_data[k][2], result.posterior_list[k + 1])
              /\ result.row_list[k].nr = k

\* a point calculation without counter-evidence on two different items that
\* both change the posterior
C4_Witness ==
    /\ result.kind = "point"
    /\ negative_count = 0
    /\ NEvidence = 2
    /\ Len(result.posterior_list) = 3
    /\ bevis_data[1] # bevis_data[2]
    /\ result.posterior_list[2] # result.posterior_list[1]
    /\ result.posterior_list[3] # result.posterior_list[2]
    /\ result.row_list[2].nr = 2

\* the pairs an interval item resolves to: (min_g, min_i), the means
\* ((min_g+max_g)/2, (min_i+max_i)/2), and (max_g, max_i)
MinPair(b) == <<b[1], b[3]>>
MedPair(b) == <<RDiv(RAdd(b[1], b[2]), <<2, 1>>), RDiv(RAdd(b[3], b[4]), <<2, 1>>)>>
MaxPair(b) == <<b[2], b[4]>>

MinPairs == [k \in 1..NEvidence |-> MinPair(bevis_data[k])]
MedPairs == [k \in 1..NEvidence |-> MedPair(bevis_data[k])]
MaxPairs == [k \in 1..NEvidence |-> MaxPair(bevis_data[k])]

\* the point-mode posterior trace of prior p and the pairs, and its last entry
PointTrace(p, pairs) == ExactPoint(p, pairs).posterior_list
PointFinal(p, pairs) == Last(PointTrace(p, pairs))

\* C5: in interval mode do_exact_bayes_calculation returns three traces of
\* n+1 entries that start with the prior and equal the point-mode traces of
\* the min pairs, the mean pairs and the max pairs.
C5_IntervalTracesArePointTraces ==
    (result.kind = "interval" /\ negative_count = 0) =>
        /\ Len(result.min_post_list) = NEvidence + 1
        /\ Len(result.median_post_list) = NEvidence + 1
        /\ Len(result.max_post_list) = NEvidence + 1
        /\ result.min_post_list = PointTrace(prior, MinPairs)
        /\ result.median_post_list = PointTrace(prior, MedPairs)
        /\ result.max_post_list = PointTrace(prior, MaxPairs)

\* C6: with counter-evidence in interval mode the final min, median and max
\* values are the counter-evidence pairs applied in order to the posterior the
\* respective chain reached after all n evidence items.
C6_CounterEvidenceExtendsEachChain ==
    (result.kind = "interval" /\ negative_count > 0) =>
        /\ Last(result.min_post_list) =
              PointFinal(PointFinal(prior, MinPairs), negative_bevis_data)
        /\ Last(result.median_post_list) =
              PointFinal(PointFinal(prior, MedPairs), negative_bevis_data)
        /\ Last(result.max_post_list) =
              PointFinal(PointFinal(prior, MaxPairs), negative_bevis_data)

\* every item has min_g <= max_g and min_i <= max_i
IntervalsOrdered ==
    \A k \in 1..NEvidence :
        RLe(bevis_data[k][1], bevis_data[k][2]) /\ RLe(bevis_data[k][3], bevis_data[k][4])

\* every item has min_g * max_i <= max_g * min_i: the likelihood ratio of the
\* max pair is at least that of the min pair
RatiosOrdered ==
    \A k \in 1..NEvidence :
        RLe(RMul(bevis_data[k][1], bevis_data[k][4]),
            RMul(bevis_data[k][2], bevis_data[k][3]))

\* the running values current_min, current_median, current_max after the
\* k-th evidence item
RunningMin(k) == steps[3 * k - 2].new
RunningMed(k) == steps[3 * k - 1].new
RunningMax(k) == steps[3 * k].new

ChainsOrdered ==
    \A k \in 1..NEvidence :
        RGe(RunningMax(k), RunningMed(k)) /\ RGe(RunningMed(k), RunningMin(k))

C8_CounterEvidenceContinuesThePointTrace ==
    (result.kind = "point" /\ negative_count > 0) =>
        /\ Len(result.posterior_list) = NEvidence + negative_count + 1
        /\ result.posterior_list = PointTrace(prior, bevis_data \o negative_bevis_data)

\* a point calculation in which the evidence moved the posterior away from
\* the prior and a counter-evidence pair then moved it again
C8_Witness ==
    /\ result.kind = "point"
    /\ negative_count > 0
    /\ result.posterior_list[NEvidence + 1] # prior
    /\ Last(result.posterior_list) # result.posterior_list[NEvidence + 1]
    /\ Last(steps).site = "neg_point"

ValidMasses ==
    /\ RLe(RAdd(bA_skuld, bA_oskuld), One)
    /\ RLe(RAdd(bB_skuld, bB_oskuld), One)

\* conflict = guilt_A*innocence_B + innocence_A*guilt_B and K = 1 - conflict
Conflict == RAdd(RMul(bA_skuld, bB_oskuld), RMul(bA_oskuld, bB_skuld))
KOf == RSub(One, Conflict)

\* C10: when the combination is attempted with K = 0 the combinator reports
\* the total-conflict error and no m_guilt, m_innocence or m_unknown; a
\* combination that is reported never went through a division by zero.
C10_TotalConflictIsReported ==
    /\ (ds.kind # "none" /\ ValidMasses /\ KOf = Zero) =>
          /\ ds.kind = "error"
          /\ ds.error = "Total konflikt => K=0, kan ej kombineras."
          /\ DOMAIN ds = {"kind", "error"}
    /\ ds.kind = "combined" =>
          /\ ds.K # Zero
          /\ ~IsFault(ds.m_skyldig) /\ ~IsFault(ds.m_oskuld) /\ ~IsFault(ds.m_okand)

\* the button pressed with all of A's mass on guilt and all of B's on innocence
C10_Witness ==
    /\ ds.kind = "error"
    /\ bA_skuld = One /\ bA_oskuld = Zero
    /\ bB_skuld = Zero /\ bB_oskuld = One
    /\ KOf = Zero

\* C11: when guilt_A + innocence_A > 1 or guilt_B + innocence_B > 1 the run
\* with the button pressed ends in the sum error and nothing else: no conflict,
\* no K and no combined mass is written, and the slider values stay as entered.
C11_InvalidSumIsRejected ==
    (ds.kind # "none" /\ ~ValidMasses) =>
        /\ ds = SumError
        /\ DOMAIN ds = {"kind", "error"}
        /\ RLt(One, RAdd(bA_skuld, bA_oskuld)) \/ RLt(One, RAdd(bB_skuld, bB_oskuld))

\* the button pressed with a valid source A and a source B whose masses sum
\* to more than 1
C11_Witness ==
    /\ ds = SumError
    /\ RLe(RAdd(bA_skuld, bA_oskuld), One)
    /\ RLt(One, RAdd(bB_skuld, bB_oskuld))
    /\ RLt(bB_skuld, One) /\ RLt(bB_oskuld, One)

C13_CombinedMassesSumToOne ==
    (ds.kind # "none" /\ ValidMasses /\ KOf # Zero) =>
        /\ ds.kind = "combined"
        /\ RAdd(RAdd(ds.m_skyldig, ds.m_oskuld), ds.m_okand) = One

\* a combination in partial conflict (0 < K < 1) that leaves mass on each of
\* guilt, innocence and unknown
C13_Witness ==
    /\ ds.kind = "combined"
    /\ RLt(Zero, ds.K) /\ RLt(ds.K, One)
    /\ RLt(Zero, ds.m_skyldig)
    /\ RLt(Zero, ds.m_oskuld)
    /\ RLt(Zero, ds.m_okand)

\* C14: the star network with a single node (p_true_given_s,
\* p_true_given_not_s) and prior p gives exactly the posterior of one point
\* update of p with that pair, the zero-denominator case included.
C14_SingleNodeIsOnePointUpdate ==
    (bn.kind = "bn" /\ Len(bevis_bn) = 1) =>
        /\ bn.posterior_bn = PointFinal(p_s_true, bevis_bn)
        /\ IsBayesUpdate(p_s_true, bevis_bn[1][1], bevis_bn[1][2], bn.posterior_bn)
        /\ (bevis_bn[1] = <<Zero, Zero>> => bn.posterior_bn = Zero)

\* a single-node network whose node moved the posterior away from the prior
C14_Witness ==
    /\ bn.kind = "bn"
    /\ Len(bevis_bn) = 1
    /\ bn.bottom # Zero
    /\ bn.posterior_bn # p_s_true
    /\ RLt(Zero, bn.posterior_bn) /\ RLt(bn.posterior_bn, One)

\* a single-node network with both probabilities 0: the denominator is zero
C14_WitnessZero ==
    /\ bn.kind = "bn"
    /\ Len(bevis_bn) = 1
    /\ bevis_bn[1] = <<Zero, Zero>>
    /\ RLt(Zero, p_s_true)
    /\ bn.bottom = Zero

\* the run is the Monte Carlo button pressed while interval mode is off
McRefusedRun == result.kind = "mc_error"

\* C15: the Monte Carlo button pressed while interval mode is not active
\* reports the precondition error and computes nothing: no sample is drawn,
\* no update step is made, no statistic and no result array is written, and
\* final_in_pct is left alone.  A sample or a statistic exists only in
\* interval mode.
C15_MonteCarloNeedsIntervalMode ==
    /\ ~use_intervals => result.kind \notin {"mc_running", "mc"}
    /\ McRefusedRun =>
          /\ ~use_intervals
          /\ DOMAIN result = {"kind", "error"}
          /\ result.error = "Intervall-laege maaste vara aktiverat foer Monte Carlo."
          /\ steps = <<>>

\* the Monte Carlo button pressed in point mode after an exact calculation
\* had set final_in_pct
C15_Witness ==
    /\ McRefusedRun
    /\ ~use_intervals
    /\ final_in_pct # None
    /\ Len(bevis_data) = MaxItems

\* every evidence item has min_g = max_g and min_i = max_i
Degenerate ==
    \A k \in 1..NEvidence :
        bevis_data[k][1] = bevis_data[k][2] /\ bevis_data[k][3] = bevis_data[k][4]

\* the pairs the Monte Carlo loop applies to a sample when the intervals are
\* degenerate: the fixed evidence pairs, then the counter-evidence pairs when
\* the section is enabled and not empty
FixedPairs ==
    MinPairs \o (IF enable_negative_evidence /\ Len(negative_bevis_data) > 0
                 THEN negative_bevis_data ELSE <<>>)

\* C16: with degenerate intervals every Monte Carlo sample equals 100 times
\* the final posterior of the exact point update of the prior with the fixed
\* pairs (followed by the counter-evidence pairs when enabled), whatever the
\* earlier samples were; so all samples are equal and the statistics of the
\* finished run collapse to that value.
C16_DegenerateSamplesAreThePointResult ==
    (result.kind \in {"mc_running", "mc"} /\ Degenerate) =>
        /\ \A k \in DOMAIN result.results :
              result.results[k] = RMul(PointFinal(prior, FixedPairs), Hundred)
        /\ result.kind = "mc" =>
              /\ Len(result.results) = NSamples
              /\ result.minv = result.maxv
              /\ result.medel = result.minv
              /\ result.medianv = result.minv
              /\ result.stdv2 = Zero

\* a finished Monte Carlo run on a degenerate item with counter-evidence, in
\* which the evidence and the counter-evidence each moved every sample
C16_Witness ==
    /\ result.kind = "mc"
    /\ Degenerate
    /\ enable_negative_evidence
    /\ Len(result.results) = NSamples
    /\ PointFinal(prior, MinPairs) # prior
    /\ PointFinal(prior, FixedPairs) # PointFinal(prior, MinPairs)
    /\ result.results[NSamples] # RMul(prior, Hundred)
    /\ RLt(Zero, result.results[NSamples])

\* the scenario: prior 1 %, one evidence item with P(B|guilty) = 95 % and
\* P(B|innocent) = 0.1 %, point mode
GuiltScenario ==
    /\ result.kind = "point"
    /\ prior = <<1, 100>>
    /\ bevis_data = <<<<<<19, 20>>, <<1, 1000>>>>>>

\* the percentage pct written with two decimals
TwoDecimals(pct) == FixedPoint(pct, 2)

\* C17 as stated: in the scenario the posterior is 90.59 % to two decimal
\* places and the row's tier label is the >= 80 tier.
C17_ScenarioAsStated ==
    GuiltScenario =>
        /\ TwoDecimals(result.row_list[1].new_pct) = <<"9", "0", ".", "5", "9">>
        /\ result.row_list[1].kommentar = "Talar starkt foer skuld (>80%)"

\* C17 amended: in the scenario the posterior is 0.0095/0.01049 = 950/1049,
\* 90.56 % to two decimal places, and the row's tier label is the >= 80 tier.
C17_ScenarioPosterior ==
    GuiltScenario =>
        /\ Last(result.posterior_list) = <<950, 1049>>
        /\ result.row_list[1].new_pct = RMul(Last(result.posterior_list), Hundred)
        /\ TwoDecimals(result.row_list[1].new_pct) = <<"9", "0", ".", "5", "6">>
        /\ result.row_list[1].kommentar = "Talar starkt foer skuld (>80%)"

\* the scenario calculated: one row, numbered 1, that raised the posterior
\* from the prior to a value between 80 % and 95 %
C17_Witness ==
    /\ GuiltScenario
    /\ Len(result.row_list) = 1
    /\ result.row_list[1].nr = 1
    /\ result.row_list[1].old_pct = One
    /\ RLe(<<80, 1>>, result.row_list[1].new_pct)
    /\ RLt(result.row_list[1].new_pct, <<95, 1>>)

\* the scenario: the button pressed with A = (guilt 0.5, innocence 0.2) and
\* B = (guilt 0.4, innocence 0.3), each with 0.3 left on unknown
MassScenario ==
    /\ ds.kind # "none"
    /\ bA_skuld = <<1, 2>> /\ bA_oskuld = <<1, 5>>
    /\ bB_skuld = <<2, 5>> /\ bB_oskuld = <<3, 10>>

\* the mass m written with three decimals
ThreeDecimals(m) == FixedPoint(m, 3)

\* C18 as stated: in the scenario conflict = 0.23, K = 0.77 and
\* m_guilt = (0.2 + 0.15 + 0.12)/0.77, which is 0.608 to three decimal places.
C18_ScenarioAsStated ==
    MassScenario =>
        /\ ds.kind = "combined"
        /\ ds.conflict = <<23, 100>>
        /\ ds.K = <<77, 100>>
        /\ ds.m_skyldig = RDiv(RAdd(RAdd(<<2, 10>>, <<15, 100>>), <<12, 100>>), <<77, 100>>)
        /\ ThreeDecimals(ds.m_skyldig) = <<"0", ".", "6", "0", "8">>

\* C18 amended: in the scenario conflict = 0.23, K = 0.77 and
\* m_guilt = (0.2 + 0.15 + 0.12)/0.77 = 47/77, which is 0.610 to three
\* decimal places.
C18_ScenarioCombination ==
    MassScenario =>
        /\ ds.kind = "combined"
        /\ ds.conflict = <<23, 100>>
        /\ ds.K = <<77, 100>>
        /\ ds.m_skyldig = RDiv(RAdd(RAdd(<<2, 10>>, <<15, 100>>), <<12, 100>>), <<77, 100>>)
        /\ ds.m_skyldig = <<47, 77>>
        /\ ThreeDecimals(ds.m_skyldig) = <<"0", ".", "6", "1", "0">>

\* the scenario combined: a partial conflict that leaves more mass on guilt
\* than either source put there
C18_Witness ==
    /\ MassScenario
    /\ ds.kind = "combined"
    /\ RLt(Zero, ds.conflict)
    /\ RLt(bA_skuld, ds.m_skyldig)
    /\ RLt(bB_skuld, ds.m_skyldig)

\* the eight labels from the lowest tier to the highest, and the threshold
\* from which each applies (none for the lowest)
TierLabels ==
    <<"Mycket naera omoejligt", "Praktiskt taget ingen chans", "Osannolikt",
      "Tveksamt", "Cirka haelften / liten oevervikt", "I huvudsak styrkt",
      "Klart oevervaegande skael", "Staellt butom rimligt">>
TierThresholds == <<1, 20, 40, 50, 60, 80, 95>>

\* the position of a label in TierLabels
TierOf(label) == CHOOSE t \in DOMAIN TierLabels : TierLabels[t] = label

\* the thresholds that are <= pct, as positions in TierThresholds
ThresholdsUpTo(pct) == {t \in DOMAIN TierThresholds : RLe(<<TierThresholds[t], 1>>, pct)}

\* the largest element of a non-empty set of numbers
Largest(S) == CHOOSE m \in S : \A n \in S : n <= m

\* C19: interpret_probability_in_words returns one of eight different labels:
\* the label of the highest threshold among 95, 80, 60, 50, 40, 20, 1 that is
\* <= pct, and the lowest label when pct < 1.  So the tier does not decrease
\* when pct increases, a value above 100 gets the top tier and a value below
\* 0 the bottom tier.
C19_LabelOfHighestThreshold ==
    words_out.kind = "label" =>
        /\ Cardinality({TierLabels[t] : t \in DOMAIN TierLabels}) = 8
        /\ \E t \in DOMAIN TierLabels : words_out.label = TierLabels[t]
        /\ words_out.label =
              IF ThresholdsUpTo(words_pct) = {} THEN TierLabels[1]
              ELSE TierLabels[Largest(ThresholdsUpTo(words_pct)) + 1]
        /\ \A q \in PctInputs :
              RLe(q, words_pct) =>
                  TierOf(interpret_probability_in_words(q)) <= TierOf(words_out.label)
        /\ RLt(Hundred, words_pct) => words_out.label = TierLabels[8]
        /\ RLt(words_pct, Zero) => words_out.label = TierLabels[1]

\* a call with pct exactly on the threshold 80: the label is that of 80, one
\* tier above the label of the next smaller argument
C19_Witness ==
    /\ words_out.kind = "label"
    /\ words_pct = <<80, 1>>
    /\ words_out.label = "Klart oevervaegande skael"
    /\ \E q \in PctInputs :
          /\ RLt(q, words_pct)
          /\ TierOf(interpret_probability_in_words(q)) = TierOf(words_out.label) - 1

\* calls with arguments outside 0..100
C19_WitnessOutside ==
    /\ words_out.kind = "label"
    /\ RLt(Hundred, words_pct) \/ RLt(words_pct, Zero)

\* reading a decimal string: an optional "-", digits, and optionally a point
\* followed by digits
IsDigit(c) == \E d \in 0..9 : Digit[d + 1] = c
DigitValue(c) == CHOOSE d \in 0..9 : Digit[d + 1] = c

RECURSIVE DigitsValue(_)
DigitsValue(cs) ==
    IF cs = <<>> THEN 0 ELSE DigitsValue(Front(cs)) * 10 + DigitValue(Last(cs))

RECURSIVE Pow10(_)
Pow10(k) == IF k = 0 THEN 1 ELSE 10 * Pow10(k - 1)

Unsigned(str) == IF str # <<>> /\ str[1] = "-" THEN Tail(str) ELSE str
Points(str) == {k \in DOMAIN str : str[k] = "."}

IsDecimal(str) ==
    LET u == Unsigned(str)
    IN  /\ u # <<>>
        /\ \A k \in DOMAIN u : IsDigit(u[k]) \/ u[k] = "."
        /\ Cardinality(Points(u)) <= 1
        /\ \A k \in Points(u) : 1 < k /\ k < Len(u)

\* the number a decimal string denotes
ParseDecimal(str) ==
    LET u == Unsigned(str)
        k == IF Points(u) = {} THEN Len(u) + 1 ELSE CHOOSE j \in Points(u) : TRUE
        fp == SubSeq(u, k + 1, Len(u))
        mag == DigitsValue(SubSeq(u, 1, k - 1) \o fp)
    IN  Norm(IF str[1] = "-" THEN -mag ELSE mag, Pow10(Len(fp)))

\* x rounded to m decimal places, to nearest with ties to the even digit
RoundTo(x, m) ==
    LET n == Abs(x[1]) * Pow10(m)
        q == n \div x[2]
        r == n % x[2]
        mag == IF 2 * r > x[2] \/ (2 * r = x[2] /\ q % 2 = 1) THEN q + 1 ELSE q
    IN  Norm(IF x[1] < 0 THEN -mag ELSE mag, Pow10(m))

\* str is full without trailing zeros of its fractional part and without a
\* trailing point: nothing is removed when full has no point
OnlyFractionStripped(str, full) ==
    IF Points(full) = {} THEN str = full
    ELSE \E j \in 1..Len(full) :
            /\ str = SubSeq(full, 1, j)
            /\ \A k \in Points(full) : j >= k - 1
            /\ \A k \in (j + 1)..Len(full) : full[k] = "0" \/ full[k] = "."
            /\ Last(str) # "." /\ (Points(str) # {} => Last(str) # "0")

\* C20: for every x and every max_decimals >= 0 format_auto_decimals returns
\* a non-empty decimal string that is not a bare minus sign, that is x written
\* with max_decimals decimals less the trailing zeros of the fractional part
\* and a trailing point, and that reads back as x rounded to max_decimals
\* decimal places.
C20_FormatRoundTrip ==
    fmt_out.kind = "str" =>
        /\ fmt_out.s # <<>>
        /\ fmt_out.s # <<"-">>
        /\ IsDecimal(fmt_out.s)
        /\ OnlyFractionStripped(fmt_out.s, FixedPoint(fmt_x, fmt_max_decimals))
        /\ ParseDecimal(fmt_out.s) = RoundTo(fmt_x, fmt_max_decimals)

\* the same for the calls with max_decimals >= 1, as every call in the
\* program is (max_decimals is left at its default)
FormatRoundTripWithDecimals ==
    (fmt_out.kind = "str" /\ fmt_max_decimals >= 1) =>
        /\ fmt_out.s # <<>>
        /\ fmt_out.s # <<"-">>
        /\ IsDecimal(fmt_out.s)
        /\ OnlyFractionStripped(fmt_out.s, FixedPoint(fmt_x, fmt_max_decimals))
        /\ ParseDecimal(fmt_out.s) = RoundTo(fmt_x, fmt_max_decimals)

\* a call with max_decimals = 0 and a multiple of 10: the zeros of the
\* integer part are stripped
FormatStripsIntegerZeros ==
    /\ fmt_out.kind = "str"
    /\ fmt_x = Hundred
    /\ fmt_max_decimals = 0
    /\ fmt_out.s = <<"1">>

\* the point-mode steps of prior p and the pairs, as logged
PointSteps(p, pairs) == ExactPoint(p, pairs).steps

C21_WitnessZeroOnTheWay ==
    /\ bn.kind = "bn"
    /\ Len(bevis_bn) >= 2
    /\ RLt(Zero, p_s_true) /\ RLt(p_s_true, One)
    /\ \E k \in 2..Len(bevis_bn) :
          /\ PointSteps(p_s_true, bevis_bn)[k].old = One
          /\ PointSteps(p_s_true, bevis_bn)[k].denominator = Zero
    /\ bn.bottom = Zero

\* the permutations of 1..n
Perms(n) == {f \in [1..n -> 1..n] : \A i, j \in 1..n : f[i] = f[j] => i = j}

\* the list lst rearranged by the permutation f
Permuted(lst, f) == [k \in 1..Len(lst) |-> lst[f[k]]]

C22_WitnessZeroOnTheWay ==
    /\ result.kind = "point"
    /\ negative_count = 0
    /\ NEvidence = 2
    /\ steps[1].denominator # Zero
    /\ steps[2].denominator = Zero
    /\ PointSteps(prior, <<bevis_data[2], bevis_data[1]>>)[1].denominator # Zero

\* the final posterior percentage of the calculation that is shown
ShownFinalPct ==
    IF result.kind = "point" THEN RMul(Last(result.posterior_list), Hundred)
    ELSE RMul(Last(result.median_post_list), Hundred)

\* C23: after every calculation of a session final_in_pct is the final
\* posterior percentage of that calculation: the last point-trace entry in
\* point mode, the final median-chain value in interval mode, with or without
\* counter-evidence.
C23_FinalInPctIsTheLatestResult ==
    result.kind \in {"point", "interval"} => final_in_pct = ShownFinalPct

\* the same for the calculations in point mode and for those in interval mode
\* with counter-evidence
FinalInPctWhereItIsSet ==
    (result.kind = "point" \/ (result.kind = "interval" /\ negative_count > 0))
        => final_in_pct = ShownFinalPct

\* an interval calculation without counter-evidence leaves final_in_pct as it
\* was: here at the value of an earlier point calculation
FinalInPctIsStale ==
    /\ result.kind = "interval"
    /\ negative_count = 0
    /\ final_in_pct # None
    /\ final_in_pct # ShownFinalPct

\* an interval calculation without counter-evidence as the first calculation
\* of the session: final_in_pct is still None
FinalInPctIsNone ==
    /\ result.kind = "interval"
    /\ negative_count = 0
    /\ final_in_pct = None

\* unknown_A and unknown_B: bA_okand and bB_okand
UnknownA == RSub(One, RAdd(bA_skuld, bA_oskuld))
UnknownB == RSub(One, RAdd(bB_skuld, bB_oskuld))

C24_WitnessNoUnknown ==
    /\ ds.kind = "combined"
    /\ RLt(Zero, ds.conflict)
    /\ UnknownA = Zero
    /\ RLt(Zero, UnknownB)
    /\ ds.m_okand = Zero

\* conflict = 1 exactly when one source puts mass 1 on guilt and the other
\* mass 1 on innocence
OppositeCertainties ==
    \/ bA_skuld = One /\ bB_oskuld = One
    \/ bA_oskuld = One /\ bB_skuld = One

\* C25: for valid masses conflict lies in [0,1], and the total-conflict error
\* (K = 0) is reported if and only if one source assigns mass 1 to guilt and
\* the other mass 1 to innocence.
C25_TotalConflictOnlyForOppositeCertainties ==
    (ds.kind # "none" /\ ValidMasses) =>
        /\ InUnit(Conflict)
        /\ ds.kind = "combined" => (ds.conflict = Conflict /\ InUnit(ds.conflict))
        /\ ds = ConflictError <=> OppositeCertainties
        /\ KOf = Zero <=> OppositeCertainties

\* the button pressed with all of A's mass on innocence and all of B's on
\* guilt: the total-conflict error
C25_Witness ==
    /\ ds = ConflictError
    /\ bA_oskuld = One /\ bA_skuld = Zero
    /\ bB_skuld = One /\ bB_oskuld = Zero

\* a combination with a conflict close to 1 that is still combined
C25_WitnessNearTotal ==
    /\ ds.kind = "combined"
    /\ RLt(<<4, 5>>, ds.conflict)
    /\ ~OppositeCertainties

\* once an entry of the list is 0, every later entry is 0
ZeroAbsorbs(list) ==
    \A i, j \in DOMAIN list : (i < j /\ list[i] = Zero) => list[j] = Zero

\* the logged steps i before j belong to one chain
SameChain(i, j, S) == i < j /\ steps[i].site \in S /\ steps[j].site \in S

\* in the chain of the steps at the sites S, a step that starts from 0 or ends
\* in 0 is followed only by steps that start from 0 and end in 0
ChainAbsorbs(S) ==
    \A i, j \in DOMAIN steps :
        (SameChain(i, j, S) /\ (steps[i].old = Zero \/ steps[i].new = Zero))
            => (steps[j].old = Zero /\ steps[j].new = Zero)

\* the number of update steps of one Monte Carlo sample
SampleLen ==
    Len(bevis_data) +
    (IF enable_negative_evidence /\ Len(negative_bevis_data) > 0
     THEN Len(negative_bevis_data) ELSE 0)

\* the sample (counted from 1) the k-th logged Monte Carlo step belongs to
SampleOf(k) == ((k - 1) \div SampleLen) + 1

\* C26: a posterior of 0 is absorbing. Every update step that starts from 0
\* ends in 0, whatever the pair; in the point chain with its counter-evidence
\* continuation, in the min and median chains with theirs, in the running max
\* chain, in the counter-evidence chain of the max list and in every Monte
\* Carlo sample, a 0 (the prior, or a zero-denominator substitution) is
\* followed only by 0; and the lists and samples reported hold only 0 after
\* their first 0.
C26_ZeroIsAbsorbing ==
    /\ \A k \in DOMAIN steps : steps[k].old = Zero => steps[k].new = Zero
    /\ result.kind = "point" =>
          /\ ChainAbsorbs({"point", "neg_point"})
          /\ ZeroAbsorbs(result.posterior_list)
    /\ result.kind = "interval" =>
          /\ ChainAbsorbs({"min", "neg_min"})
          /\ ChainAbsorbs({"med", "neg_med"})
          /\ ChainAbsorbs({"max"})
          /\ ChainAbsorbs({"neg_max"})
          /\ ZeroAbsorbs(result.min_post_list)
          /\ ZeroAbsorbs(result.median_post_list)
          /\ ZeroAbsorbs(result.max_post_list)
    /\ result.kind \in {"mc", "mc_running"} =>
          /\ \A i, j \in DOMAIN steps :
                (/\ i < j
                 /\ SampleOf(i) = SampleOf(j)
                 /\ (steps[i].old = Zero \/ steps[i].new = Zero))
                    => (steps[j].old = Zero /\ steps[j].new = Zero)
          /\ \A k \in DOMAIN steps :
                (steps[k].old = Zero \/ steps[k].new = Zero)
                    => result.results[SampleOf(k)] = Zero

\* a point calculation from a prior above 0 whose first step met a zero
\* denominator, and whose second step, on a pair that speaks for guilt alone
\* (P(B|guilty) = 1, P(B|innocent) = 0), stayed at 0
C26_Witness ==
    /\ result.kind = "point"
    /\ RLt(Zero, prior)
    /\ \E k \in StepsAt({"point"}) :
          /\ steps[k].old = prior
          /\ steps[k].denominator = Zero
          /\ steps[k].new = Zero
          /\ k + 1 \in DOMAIN steps
          /\ steps[k + 1].pba = One
          /\ steps[k + 1].pbna = Zero
          /\ steps[k + 1].new = Zero
    /\ Last(result.posterior_list) = Zero

\* a finished Monte Carlo run from a prior above 0 with a sample that a drawn
\* pair took to 0 and that the counter-evidence pair left at 0
C26_WitnessMonteCarlo ==
    /\ result.kind = "mc"
    /\ RLt(Zero, prior)
    /\ \E k \in StepsAt({"mc"}) :
          /\ RLt(Zero, steps[k].old)
          /\ steps[k].new = Zero
          /\ k + 1 \in DOMAIN steps
          /\ steps[k + 1].site = "mc_neg"
          /\ RLt(Zero, steps[k + 1].pba)
          /\ steps[k + 1].new = Zero
          /\ result.results[SampleOf(k)] = Zero

\* an interval calculation with counter-evidence from a prior above 0 whose
\* min chain reached 0 on the evidence and stayed there on the counter-evidence
C26_WitnessInterval ==
    /\ result.kind = "interval"
    /\ RLt(Zero, prior)
    /\ \E k \in StepsAt({"min"}) : steps[k].new = Zero
    /\ \E k \in StepsAt({"neg_min"}) : RLt(Zero, steps[k].pba) /\ steps[k].new = Zero
    /\ Last(result.min_post_list) = Zero

\* the pairs (min_g, max_i) and (max_g, min_i) of the items: the least and
\* the most incriminating corner of each item
LowPairs == [k \in 1..NEvidence |-> <<bevis_data[k][1], bevis_data[k][4]>>]
HighPairs == [k \in 1..NEvidence |-> <<bevis_data[k][2], bevis_data[k][3]>>]

\* the final posteriors of the two sequential chains on those pairs
LowFinal == PointFinal(prior, LowPairs)
HighFinal == PointFinal(prior, HighPairs)

\* the interval of each item is entered with min <= max and no counter-evidence
\* is applied
EnvelopeCase ==
    /\ IntervalsOrdered
    /\ ~(enable_negative_evidence /\ Len(negative_bevis_data) > 0)

C27_WitnessZeroDenominator ==
    /\ result.kind = "mc"
    /\ EnvelopeCase
    /\ RLt(Zero, prior)
    /\ LowFinal = Zero
    /\ HighFinal = One
    /\ \E k \in StepsAt({"mc"}) :
          /\ steps[k].denominator = Zero
          /\ result.results[SampleOf(k)] = Zero

=============================================================================
